---- MODULE Spec2Model ----
(***************************************************************************)
(* A model of odoo_log_analyser.py.                                        *)
(*                                                                         *)
(* Spec    : read_log, one step per physical line of the log file.         *)
(* SpecAgg : the report of main on the request bucket: the three top-10    *)
(*           tables and the per-endpoint aggregation loop.                 *)
(*                                                                         *)
(* Text.  A physical line is a record [toks, nl]: toks are its whitespace  *)
(* separated tokens (what line.split() returns), written as TLA+ strings   *)
(* and joined by single spaces, nl says whether the line carries its line  *)
(* terminator (only the last line of a file can lack it).  Operations on   *)
(* the characters of a token (startswith, [:-1], [1:], float(), int(),     *)
(* strptime) are evaluated over the closed vocabulary of tokens the model  *)
(* draws lines from, by tables that list Python's result for each token.   *)
(* Seconds are counted in whole milliseconds (0.040 s is 40), so float     *)
(* sums and comparisons are the exact ones; the averages of main are exact *)
(* fractions.  In SpecAgg an endpoint is the sequence of its characters,   *)
(* so that the regular expression of line 159 is matched as written.       *)
(***************************************************************************)
EXTENDS Integers, Sequences, FiniteSets, TLC

VARIABLES
    threshold,      \* read_log parameter and local: <<>> is None, <<t>> a number
    severity,       \* read_log parameter: <<>> is None, <<s>> a number
    ignore_no_db,   \* read_log parameter
    pc,             \* "entry" | "loop" | "returned" | "raised"
    error,          \* the exception that left read_log, "" if none
    lines,          \* the lines the for loop has taken from log_file so far
    current_line,   \* the dict current_line
    log,            \* the defaultdict log: level -> list of dicts
    outcome,        \* history: what the loop body did with each line of lines
    cur_src,        \* history: number of the line current_line was built from
    log_src,        \* history: for every entry of log, the number of its line
    requests,       \* main: logs[REQUEST_KEY], the endpoint and total_time of each
    idx,            \* main: number of requests the for loop has consumed
    ep_hits,        \* main: ep_hits, as the sequence of its items
    ep_times,       \* main: ep_times, as the sequence of its items
    slow_requests,  \* main: lines of line 151, as positions in requests
    slow_endpoints, \* main: lines of line 165, the endpoint of each row
    most_hit,       \* main: lines of line 173
    apc             \* main: "idle" | "sort" | "loop" | "done" | "hits" | "end"
                    \*       | "raised"

rvars == <<threshold, severity, ignore_no_db, pc, error, lines, current_line,
           log, outcome, cur_src, log_src>>
avars == <<requests, idx, ep_hits, ep_times, slow_requests, slow_endpoints,
           most_hit, apc>>
vars == <<rvars, avars>>

-----------------------------------------------------------------------------
(* Bounds *)

\* longest file read, in lines
MaxLines == 4

\* most entries in the request bucket main aggregates
MaxRequests == 3

\* most entries in a request bucket of one request per page
MaxRows == 11

-----------------------------------------------------------------------------
(* Python values *)

\* None, and a value that is not None
NONE == <<>>
Some(v) == <<v>>
Val(o) == o[1]

\* {} and d[k] = v on a dict
EmptyDict == <<>>
Put(d, k, v) == [x \in (DOMAIN d) \cup {k} |-> IF x = k THEN v ELSE d[x]]
IsEmpty(d) == DOMAIN d = {}

\* d[k] of a defaultdict(list)
Bucket(d, k) == IF k \in DOMAIN d THEN d[k] ELSE <<>>

Last(s) == s[Len(s)]

-----------------------------------------------------------------------------
(* Module constants *)

REQUEST_KEY == "REQUEST"

\* logging.getLevelNamesMapping()
LEVEL_MAPPING ==
    { <<"CRITICAL", 50>>, <<"FATAL", 50>>, <<"ERROR", 40>>, <<"WARN", 30>>,
      <<"WARNING", 30>>, <<"INFO", 20>>, <<"DEBUG", 10>>, <<"NOTSET", 0>> }

LOG_LEVELS == { p[1] : p \in LEVEL_MAPPING }

\* max(_LEVEL_MAPPING.values())
MaxLevel == CHOOSE v \in { p[2] : p \in LEVEL_MAPPING } :
                \A p \in LEVEL_MAPPING : p[2] <= v

\* _LEVEL_MAPPING.get(level, 0)
LevelRank(level) ==
    IF level \in LOG_LEVELS
    THEN (CHOOSE p \in LEVEL_MAPPING : p[1] = level)[2]
    ELSE 0

-----------------------------------------------------------------------------
(* The vocabulary: Python's string operations, token by token *)

YEAR_SUFFIX == "202"

\* t.startswith(p)
StartsWith(t, p) == <<t, p>> \in { <<"2024-01-01", "202">>, <<"202", "202">> }

\* t[:-1]
DropLastChar(t) ==
    CASE t = "werkzeug:"  -> "werkzeug"
      [] t = "odoo.sql:"  -> "odoo.sql"
      [] t = "odoo.http:" -> "odoo.http"
      [] t = "x:"         -> "x"

\* t[1:]
DropFirstChar(t) ==
    CASE t = "\"GET" -> "GET"
      [] t = "5"     -> ""

\* float(t), in milliseconds; a token outside the table raises ValueError
FloatTable ==
    { <<"0.010", 10>>, <<"0.020", 20>>, <<"0.040", 40>>, <<"1", 1000>>,
      <<"5", 5000>>, <<"123", 123000>>, <<"200", 200000>> }
IsFloat(t) == \E p \in FloatTable : p[1] = t
FloatOf(t) == (CHOOSE p \in FloatTable : p[1] = t)[2]

\* int(t); a token outside the table raises ValueError
IntTable == { <<"1", 1>>, <<"5", 5>>, <<"123", 123>>, <<"200", 200>> }
IsInt(t) == \E p \in IntTable : p[1] = t
IntOf(t) == (CHOOSE p \in IntTable : p[1] = t)[2]

\* t.split(".")[0].split(",")[0]
StripMillis(t) ==
    CASE t = "10:00:00,000" -> "10:00:00"
      [] t = "10:00:01.500" -> "10:00:01"
      [] OTHER              -> t

\* datetime.strptime(d + " " + t, "%Y-%m-%d %H:%M:%S") succeeds
IsTimestamp(d, t) == d \in {"2024-01-01"} /\ t \in {"10:00:00", "10:00:01"}

\* the last character of a token is "-"
EndsWithDash(t) == t \in {"-"}

\* " ".join(s)
RECURSIVE JoinSpace(_)
JoinSpace(s) ==
    IF Len(s) = 0 THEN ""
    ELSE IF Len(s) = 1 THEN s[1]
    ELSE s[1] \o " " \o JoinSpace(Tail(s))

-----------------------------------------------------------------------------
(* The lines a log file is made of *)

Line(toks, nl) == [toks |-> toks, nl |-> nl]

Stamp == <<"2024-01-01", "10:00:00,000">>

\* an access line of werkzeug, as Odoo writes it
Access(db, path, tail) ==
    Stamp \o <<"123", "INFO", db, "werkzeug:", "127.0.0.1", "-", "-",
               "[01/Jan/2024", "10:00:00]", "\"GET", path, "HTTP/1.1\"",
               "200", "-">> \o tail

MsgInfo      == Line(Stamp \o <<"123", "INFO", "mydb", "odoo.sql:", "hello", "world">>, TRUE)
MsgErrorNoDb == Line(Stamp \o <<"123", "ERROR", "?", "odoo.http:", "boom">>, TRUE)
\* the 4th token is no level name; the level name the classifier finds is the 5th
MsgRequestLv == Line(Stamp \o <<"1", "REQUEST", "INFO", "x:", "hi">>, TRUE)
MsgBadPid    == Line(Stamp \o <<"abc", "INFO", "mydb", "odoo.sql:", "hello">>, TRUE)
ShortHeader  == Line(<<"202", "INFO", "x">>, TRUE)
ReqSlow      == Line(Access("mydb", "/", <<"5", "0.010", "0.040">>), TRUE)
ReqFast      == Line(Access("mydb", "/shop", <<"1", "0.010", "0.020">>), TRUE)
ReqDash      == Line(Access("mydb", "/", <<>>), TRUE)
ReqDashEof   == Line(Access("mydb", "/", <<>>), FALSE)
\* the request line of the specification's scenario
ReqScenario  == Line(Stamp \o <<"123", "INFO", "mydb", "werkzeug:", "GET", "/",
                                "HTTP/1.1", "200", "-", "5", "0.010", "0.040">>, TRUE)
Traceback    == Line(<<"Traceback", "(most", "recent", "call", "last):">>, TRUE)
\* starts like a header, names no level
Dated        == Line(<<"2024-01-01", "note">>, TRUE)

LINES == { MsgInfo, MsgErrorNoDb, MsgRequestLv, MsgBadPid, ShortHeader, ReqSlow,
           ReqFast, ReqDash, ReqDashEof, ReqScenario, Traceback, Dated }

\* the values main and the scenarios give the parameters
THRESHOLDS == { NONE, Some(0), Some(40) }
SEVERITIES == { NONE, Some(0), Some(40) }

-----------------------------------------------------------------------------
(* read_log: the classifier *)

\* index in the line of the first character of token i (tokens from 1)
RECURSIVE Offset(_, _)
Offset(toks, i) ==
    IF i = 1 THEN 0 ELSE Offset(toks, i - 1) + Len(toks[i - 1]) + 1

\* f" {ll} " in line[:40]: a token equal to ll with a space on both sides,
\* the second one before index 40
InWindow(line, ll) ==
    \E i \in 2..(Len(line.toks) - 1) :
        /\ line.toks[i] = ll
        /\ Offset(line.toks, i) + Len(ll) + 1 <= 40

\* line.startswith(_YEAR_SUFFIX) and any(f" {ll} " in line[:40] for ll in LOG_LEVELS)
IsHeader(line) ==
    /\ Len(line.toks) >= 1
    /\ StartsWith(line.toks[1], YEAR_SUFFIX)
    /\ \E ll \in LOG_LEVELS : InWindow(line, ll)

\* line.endswith("-")
EndsWithSentinel(line) ==
    /\ Len(line.toks) >= 1
    /\ ~line.nl
    /\ EndsWithDash(Last(line.toks))

-----------------------------------------------------------------------------
(* read_log: the entry builder, lines 56-99 *)

\* fragments[k], k counted from 0 as in the source
Frag(f, k) == f[k + 1]
HasFrag(f, k) == k < Len(f)
\* fragments[-k]
FragEnd(f, k) == f[Len(f) + 1 - k]

\* what the body of the header branch does after line 54
Built(c)     == [out |-> "entry", err |-> "", cur |-> c]
Skipped      == [out |-> "skip", err |-> "", cur |-> EmptyDict]
Raised(e, c) == [out |-> "raise", err |-> e, cur |-> c]

\* lines 88-99: the common fields
CommonFields(f, c, level, db, logger) ==
    LET time_str == StripMillis(Frag(f, 1))
    IN  IF ~IsTimestamp(Frag(f, 0), time_str) THEN Raised("ValueError", c)
        ELSE LET c1 == Put(c, "timestamp", Frag(f, 0) \o " " \o time_str)
             IN  IF ~IsInt(Frag(f, 2)) THEN Raised("ValueError", c1)
                 ELSE LET c2 == Put(c1, "pid", IntOf(Frag(f, 2)))
                          c3 == IF "level" \in DOMAIN c2 THEN c2
                                ELSE Put(c2, "level", level)
                      IN  Built(Put(Put(c3, "db", db), "logger", logger))

\* the local threshold, a number after line 31
Threshold == Val(threshold)

\* lines 32-33: severity, 1 + max(_LEVEL_MAPPING.values()) when None
Severity == IF severity = NONE THEN 1 + MaxLevel ELSE Val(severity)

\* mutant: line 64 without the test of the sentinel
NoPerfData_NoSentinel(line) == Threshold = 0

\* line 64: the request line carries no timing
NoPerfData(line) == Threshold = 0 \/ EndsWithSentinel(line)

\* line 70
BelowThreshold(total_time) == total_time < Threshold

\* lines 72-75: the fixed positions of the request fields
Ip(f)       == Frag(f, 6)
Method(f)   == DropFirstChar(Frag(f, 11))
\* mutant: the endpoint taken one token too far
Endpoint_OffByOne(f) == Frag(f, 13)
Endpoint(f) == Frag(f, 12)
Status(f)   == Frag(f, 14)

\* lines 63-80: the request branch
RequestFields(line, level, db, logger) ==
    LET f == line.toks
    IN  IF NoPerfData(line) THEN Skipped
        ELSE IF ~IsFloat(FragEnd(f, 1)) \/ ~IsFloat(FragEnd(f, 2))
        THEN Raised("ValueError", EmptyDict)
        ELSE
        LET other_time == FloatOf(FragEnd(f, 1))
            sql_time   == FloatOf(FragEnd(f, 2))
            total_time == other_time + sql_time
        IN  IF BelowThreshold(total_time) THEN Skipped
            ELSE IF ~HasFrag(f, 6) THEN Raised("IndexError", EmptyDict)
            ELSE
            LET c1 == Put(EmptyDict, "ip", Ip(f))
            IN  IF ~HasFrag(f, 11) THEN Raised("IndexError", c1)
                ELSE
                LET c2 == Put(c1, "method", Method(f))
                IN  IF ~HasFrag(f, 12) THEN Raised("IndexError", c2)
                    ELSE
                    LET c3 == Put(c2, "endpoint", Endpoint(f))
                    IN  IF ~HasFrag(f, 14) THEN Raised("IndexError", c3)
                        ELSE
                        LET c4 == Put(Put(Put(Put(c3, "status", Status(f)),
                                      "other_time", other_time),
                                      "sql_time", sql_time),
                                      "total_time", total_time)
                        IN  IF ~IsInt(FragEnd(f, 3)) THEN Raised("ValueError", c4)
                            ELSE CommonFields(f,
                                   Put(Put(c4, "query_count", IntOf(FragEnd(f, 3))),
                                       "level", REQUEST_KEY),
                                   level, db, logger)

\* mutant: a level of rank equal to severity is skipped too
BelowSeverity_Inclusive(level) == LevelRank(level) <= Severity

\* mutant: line 83 with the comparison turned round
BelowSeverity_Reversed(level) == Severity < LevelRank(level)

\* line 83
BelowSeverity(level) == LevelRank(level) < Severity

\* lines 82-86: the message branch
MessageFields(line, level, db, logger) ==
    LET f == line.toks
    IN  IF BelowSeverity(level) THEN Skipped
        ELSE CommonFields(f,
               Put(Put(EmptyDict, "message", JoinSpace(SubSeq(f, 7, Len(f)))),
                   "context", <<>>),
               level, db, logger)

\* mutant: line 60 with another sentinel
NoDb_WrongSentinel(db) == ignore_no_db /\ db = "-"

\* line 60
NoDb(db) == ignore_no_db /\ db = "?"

\* line 62
IsRequestLine(logger, level) == logger = "werkzeug" /\ level = "INFO"

\* lines 56-99
BuildEntry(line) ==
    LET f == line.toks
    IN  IF ~HasFrag(f, 3) \/ ~HasFrag(f, 5) THEN Raised("IndexError", EmptyDict)
        ELSE
        LET level  == Frag(f, 3)
            logger == DropLastChar(Frag(f, 5))
            db     == Frag(f, 4)
        IN  IF NoDb(db) THEN Skipped
            ELSE IF IsRequestLine(logger, level)
            THEN RequestFields(line, level, db, logger)
            ELSE MessageFields(line, level, db, logger)

-----------------------------------------------------------------------------
(* read_log: the pass *)

EmptyLog == <<>>

\* mutant: the entry is inserted at the head of its bucket
AppendTo_Front(d, key, v) == Put(d, key, <<v>> \o Bucket(d, key))

\* log[key].append(v), on log and on its history
AppendTo(d, key, v) == Put(d, key, Append(Bucket(d, key), v))

\* lines 52-53, on log
Finalize(cur, lg) ==
    IF ~IsEmpty(cur) THEN AppendTo(lg, cur["level"], cur) ELSE lg

\* lines 52-53, on the history of log
FinalizeSrc(cur, src, lgsrc) ==
    IF ~IsEmpty(cur) THEN AppendTo(lgsrc, cur["level"], src) ELSE lgsrc

\* history: the kind of entry a header line started, or why it started none
Outcome(b) ==
    IF b.out # "entry" THEN b.out
    ELSE IF "message" \in DOMAIN b.cur THEN "message" ELSE "request"

\* line 101
KeepsContext(cur) == "context" \in DOMAIN cur

\* mutant: line 102 inserting at the front
AppendContext_Prepend(cur, line) ==
    Put(cur, "context", <<line>> \o cur["context"])

\* line 102
AppendContext(cur, line) ==
    Put(cur, "context", Append(cur["context"], line))

\* the for loop can take one more line: the file has one, and the line before
\* it ended with its terminator
CanRead == pc = "loop" /\ Len(lines) < MaxLines
           /\ (Len(lines) > 0 => Last(lines).nl)

\* lines 28-39
Enter ==
    /\ pc = "entry"
    /\ IF (threshold = NONE \/ Val(threshold) = 0) /\ severity = NONE
       THEN \* return {}
            pc' = "returned" /\ error' = "" /\ UNCHANGED threshold
       ELSE \* threshold = threshold or 0; open(logfile, "r") succeeds or raises
            /\ threshold' = IF threshold = NONE THEN Some(0) ELSE threshold
            /\ \E opened \in BOOLEAN :
                 IF opened
                 THEN pc' = "loop" /\ error' = ""
                 ELSE pc' = "raised" /\ error' = "OSError"
    /\ UNCHANGED <<severity, ignore_no_db, lines, current_line, log, outcome,
                   cur_src, log_src, avars>>

\* mutant: the skip tests come before lines 52-54, a skipped header leaves
\* the open entry as it is
HeaderLine_SkipFirst(line) ==
    /\ CanRead
    /\ IsHeader(line)
    /\ LET b == BuildEntry(line)
           skip == b.out = "skip"
       IN  /\ lines' = Append(lines, line)
           /\ log' = IF skip THEN log ELSE Finalize(current_line, log)
           /\ log_src' = IF skip THEN log_src
                         ELSE FinalizeSrc(current_line, cur_src, log_src)
           /\ current_line' = IF skip THEN current_line ELSE b.cur
           /\ outcome' = Append(outcome, Outcome(b))
           /\ cur_src' = IF skip THEN cur_src
                         ELSE IF b.out = "entry" THEN Len(lines) + 1 ELSE 0
           /\ pc' = IF b.out = "raise" THEN "raised" ELSE "loop"
           /\ error' = b.err
    /\ UNCHANGED <<threshold, severity, ignore_no_db, avars>>

\* lines 48-99: a header line
HeaderLine(line) ==
    /\ CanRead
    /\ IsHeader(line)
    /\ LET b == BuildEntry(line)
       IN  /\ lines' = Append(lines, line)
           /\ log' = Finalize(current_line, log)
           /\ log_src' = FinalizeSrc(current_line, cur_src, log_src)
           /\ current_line' = b.cur
           /\ outcome' = Append(outcome, Outcome(b))
           /\ cur_src' = IF b.out = "entry" THEN Len(lines) + 1 ELSE 0
           /\ pc' = IF b.out = "raise" THEN "raised" ELSE "loop"
           /\ error' = b.err
    /\ UNCHANGED <<threshold, severity, ignore_no_db, avars>>

\* mutant: lines 100-102 keeping the line for any open entry
ContinuationLine_AnyOpenEntry(line) ==
    /\ CanRead
    /\ ~IsHeader(line)
    /\ lines' = Append(lines, line)
    /\ current_line' =
         IF ~IsEmpty(current_line)
         THEN Put(current_line, "context",
                  Append(IF KeepsContext(current_line)
                         THEN current_line["context"] ELSE <<>>, line))
         ELSE current_line
    /\ outcome' = Append(outcome, "continuation")
    /\ UNCHANGED <<threshold, severity, ignore_no_db, pc, error, log, cur_src,
                   log_src, avars>>

\* lines 100-102: any other line
ContinuationLine(line) ==
    /\ CanRead
    /\ ~IsHeader(line)
    /\ lines' = Append(lines, line)
    /\ current_line' =
         IF KeepsContext(current_line)
         THEN AppendContext(current_line, line)
         ELSE current_line
    /\ outcome' = Append(outcome, "continuation")
    /\ UNCHANGED <<threshold, severity, ignore_no_db, pc, error, log, cur_src,
                   log_src, avars>>

\* mutant: the entry still open is appended to its bucket before the return
EndOfInput_Flush ==
    /\ pc = "loop"
    /\ pc' = "returned"
    /\ log' = Finalize(current_line, log)
    /\ log_src' = FinalizeSrc(current_line, cur_src, log_src)
    /\ UNCHANGED <<threshold, severity, ignore_no_db, error, lines, current_line,
                   outcome, cur_src, avars>>

\* lines 103-105: the file is exhausted
EndOfInput ==
    /\ pc = "loop"
    /\ pc' = "returned"
    /\ UNCHANGED <<threshold, severity, ignore_no_db, error, lines, current_line,
                   log, outcome, cur_src, log_src, avars>>

Init ==
    /\ threshold \in THRESHOLDS
    /\ severity \in SEVERITIES
    /\ ignore_no_db \in BOOLEAN
    /\ pc = "entry"
    /\ error = ""
    /\ lines = <<>>
    /\ current_line = EmptyDict
    /\ log = EmptyLog
    /\ outcome = <<>>
    /\ cur_src = 0
    /\ log_src = EmptyLog
    /\ requests = <<>>
    /\ idx = 0
    /\ ep_hits = <<>>
    /\ ep_times = <<>>
    /\ slow_requests = <<>>
    /\ slow_endpoints = <<>>
    /\ most_hit = <<>>
    /\ apc = "idle"

Next ==
    \/ Enter
    \/ \E line \in LINES : HeaderLine(line)
    \/ \E line \in LINES : ContinuationLine(line)
    \/ EndOfInput

Spec == Init /\ [][Next]_vars

-----------------------------------------------------------------------------
(* main: the report on the request bucket, lines 150-179 *)

\* a dict in insertion order is the sequence of its <<key, value>> items
Keys(d) == { d[n][1] : n \in 1..Len(d) }

\* d[k] of a defaultdict(int)
Get(d, k) ==
    IF k \in Keys(d) THEN (CHOOSE n \in 1..Len(d) : d[n][1] = k) ELSE 0

\* value of d[k] for a key of d
At(d, k) == d[Get(d, k)][2]

\* d[k] = v: a new key goes last, a known key keeps its place
Set(d, k, v) ==
    IF k \in Keys(d)
    THEN [n \in 1..Len(d) |-> IF d[n][1] = k THEN <<k, v>> ELSE d[n]]
    ELSE Append(d, <<k, v>>)

\* fractions n/d in lowest terms, d > 0
RECURSIVE GCD(_, _)
GCD(a, b) == IF b = 0 THEN a ELSE GCD(b, a % b)
Frac(n, d) == LET g == GCD(n, d)
              IN  IF g = 0 THEN [n |-> 0, d |-> 1] ELSE [n |-> n \div g, d |-> d \div g]
Times(a, k)  == Frac(a.n * k, a.d)
Plus(a, k)   == Frac(a.n + k * a.d, a.d)
Over(a, k)   == Frac(a.n, a.d * k)

\* ep_times[ep] of the defaultdict(int), as a fraction
TimeOf(d, ep) == IF ep \in Keys(d) THEN At(d, ep) ELSE Frac(0, 1)

\* ep_hits[ep] of the defaultdict(int)
HitsOf(d, ep) == IF ep \in Keys(d) THEN At(d, ep) ELSE 0

LOWER == {"a", "b", "c", "d", "e", "f", "g", "h", "i", "j", "k", "l", "m",
          "n", "o", "p", "q", "r", "s", "t", "u", "v", "w", "x", "y", "z"}
UPPER == {"A", "B", "C", "D", "E", "F", "G", "H", "I", "J", "K", "L", "M",
          "N", "O", "P", "Q", "R", "S", "T", "U", "V", "W", "X", "Y", "Z"}

\* mutant: the locale segment is replaced by nothing, the "/" is lost
Normalize_DropsSlash(ep) ==
    IF /\ Len(ep) >= 7
       /\ ep[1] = "/"
       /\ ep[2] \in LOWER /\ ep[3] \in LOWER
       /\ ep[4] = "_"
       /\ ep[5] \in UPPER /\ ep[6] \in UPPER
       /\ ep[7] = "/"
    THEN SubSeq(ep, 8, Len(ep))
    ELSE ep

\* line 159: re.sub(r"^/[a-z]{2}_[A-Z]{2}/", "/", ep)
Normalize(ep) ==
    IF /\ Len(ep) >= 7
       /\ ep[1] = "/"
       /\ ep[2] \in LOWER /\ ep[3] \in LOWER
       /\ ep[4] = "_"
       /\ ep[5] \in UPPER /\ ep[6] \in UPPER
       /\ ep[7] = "/"
    THEN <<"/">> \o SubSeq(ep, 8, Len(ep))
    ELSE ep

\* mutant: ep_hits[ep] incremented before the average is updated
Average_HitsFirst(times, hits, ep, total_time) ==
    Over(Plus(Times(TimeOf(times, ep), HitsOf(hits, ep) + 1), total_time),
         HitsOf(hits, ep) + 2)

\* lines 160-162: the new value of ep_times[ep]
Average(times, hits, ep, total_time) ==
    Over(Plus(Times(TimeOf(times, ep), HitsOf(hits, ep)), total_time),
         HitsOf(hits, ep) + 1)

\* mutant: ep_hits[ep] = 1 in place of the increment
Hit_Reset(hits, ep) == 1

\* line 163: the new value of ep_hits[ep]
Hit(hits, ep) == HitsOf(hits, ep) + 1

\* the sort key a is smaller than the sort key b, both fractions
Less(a, b) == a.n * b.d < b.n * a.d

\* mutant: x goes before the elements of equal key
Insert_BeforeEqual(s, x) ==
    LET p == Cardinality({ m \in 1..Len(s) : Less(x.key, s[m].key) })
    IN  SubSeq(s, 1, p) \o <<x>> \o SubSeq(s, p + 1, Len(s))

\* x put in its place in s, which is in non-increasing order of key: behind
\* every element whose key is not smaller
Insert(s, x) ==
    LET p == Cardinality({ m \in 1..Len(s) : ~Less(s[m].key, x.key) })
    IN  SubSeq(s, 1, p) \o <<x>> \o SubSeq(s, p + 1, Len(s))

\* sorted(s, key=..., reverse=True) on a sequence of [item, key]: the sort is
\* stable, and with reverse=True elements of equal key keep their order
RECURSIVE Sorted(_)
Sorted(s) ==
    IF s = <<>> THEN s
    ELSE Insert(Sorted(SubSeq(s, 1, Len(s) - 1)), s[Len(s)])

\* the 10 of the slices [:10]
TopN == 10

\* mutant: the slice [-10:]
Top_Last(s) == SubSeq(s, IF Len(s) < TopN THEN 1 ELSE Len(s) - TopN + 1, Len(s))

\* s[:10]
Top(s) == SubSeq(s, 1, IF Len(s) < TopN THEN Len(s) ELSE TopN)

\* the items of a sorted sequence of [item, key]
ItemsOf(s) == [m \in 1..Len(s) |-> s[m].item]

\* line 151: the requests, by position, with total_time as the sort key
ByTotalTime ==
    [k \in 1..Len(requests) |->
        [item |-> k, key |-> Frac(requests[k].total_time, 1)]]

\* lines 168-169: the items of ep_times with the average as the sort key
ByTime == [m \in 1..Len(ep_times) |-> [item |-> ep_times[m], key |-> ep_times[m][2]]]

\* lines 176-177: the items of ep_hits with the hit count as the sort key
ByHits ==
    [m \in 1..Len(ep_hits) |-> [item |-> ep_hits[m], key |-> Frac(ep_hits[m][2], 1)]]

\* the endpoints and total times (ms) of the request entries aggregated
ENDPOINTS == { <<"/", "s">>,
               <<"/", "e", "n", "_", "U", "S", "/", "s">>,
               <<"/", "e", "n", "_", "u", "s", "/", "s">>,
               <<"/", "e", "n", "_", "U", "S", "/", "e", "n", "_", "U", "S", "/", "s">> }
TOTALS == { 50, 1000, 3000 }

Request(ep, t) == [endpoint |-> ep, total_time |-> t]

REQUESTS == { Request(ep, t) : ep \in ENDPOINTS, t \in TOTALS }

RECURSIVE SeqsUpTo(_, _)
SeqsUpTo(S, n) ==
    IF n = 0 THEN { <<>> }
    ELSE LET shorter == SeqsUpTo(S, n - 1)
         IN  shorter \cup { Append(q, x) : q \in shorter, x \in S }

\* request buckets long enough for the slices [:10] to cut: the k-th request
\* is for a page of its own, and one more request may follow for the last of
\* these pages
ALPHABET == <<"a", "b", "c", "d", "e", "f", "g", "h", "i", "j", "k", "l", "m",
              "n", "o", "p", "q", "r", "s", "t", "u", "v", "w", "x", "y", "z">>
Page(k) == <<"/", "p", ALPHABET[k]>>
FEW == { 50, 1000 }
Pages(ts) == [k \in 1..Len(ts) |-> Request(Page(k), ts[k])]
LONG_RUNS ==
    UNION { { Pages(ts), Append(Pages(ts), Request(Page(Len(ts)), 1000)) }
            : ts \in { q \in SeqsUpTo(FEW, MaxRows) : Len(q) >= TopN - 1 } }

\* line 150: main has the request bucket
InitAgg ==
    /\ threshold = NONE
    /\ severity = NONE
    /\ ignore_no_db = TRUE
    /\ pc = "returned"
    /\ error = ""
    /\ lines = <<>>
    /\ current_line = EmptyDict
    /\ log = EmptyLog
    /\ outcome = <<>>
    /\ cur_src = 0
    /\ log_src = EmptyLog
    /\ requests \in SeqsUpTo(REQUESTS, MaxRequests) \cup LONG_RUNS
    /\ idx = 0
    /\ ep_hits = <<>>
    /\ ep_times = <<>>
    /\ slow_requests = <<>>
    /\ slow_endpoints = <<>>
    /\ most_hit = <<>>
    /\ apc = "sort"

\* lines 151-155: the table of the slowest requests; _print_table raises
\* ValueError (max of an empty sequence, line 109) when it has no row
SlowRequests ==
    /\ apc = "sort"
    /\ slow_requests' = ItemsOf(Top(Sorted(ByTotalTime)))
    /\ apc' = IF requests = <<>> THEN "raised" ELSE "loop"
    /\ UNCHANGED <<requests, idx, ep_hits, ep_times, slow_endpoints, most_hit,
                   rvars>>

\* lines 156-163: one request of the for loop
Aggregate ==
    /\ apc = "loop"
    /\ idx < Len(requests)
    /\ LET line == requests[idx + 1]
           ep   == Normalize(line.endpoint)
       IN  /\ ep_times' = Set(ep_times, ep,
                              Average(ep_times, ep_hits, ep, line.total_time))
           /\ ep_hits' = Set(ep_hits, ep, Hit(ep_hits, ep))
    /\ idx' = idx + 1
    /\ UNCHANGED <<requests, slow_requests, slow_endpoints, most_hit, apc, rvars>>

\* line 156: the for loop is exhausted
AggregateDone ==
    /\ apc = "loop"
    /\ idx = Len(requests)
    /\ apc' = "done"
    /\ UNCHANGED <<requests, idx, ep_hits, ep_times, slow_requests,
                   slow_endpoints, most_hit, rvars>>

\* lines 165-171: the table of the slowest endpoints; the "time" column of a
\* row is the average as text and is not part of the state
SlowEndpoints ==
    /\ apc = "done"
    /\ slow_endpoints' =
         LET top == ItemsOf(Top(Sorted(ByTime)))
         IN  [m \in 1..Len(top) |-> [endpoint |-> top[m][1]]]
    /\ apc' = "hits"
    /\ UNCHANGED <<requests, idx, ep_hits, ep_times, slow_requests, most_hit,
                   rvars>>

\* lines 173-179: the table of the most hit endpoints
MostHit ==
    /\ apc = "hits"
    /\ most_hit' =
         LET top == ItemsOf(Top(Sorted(ByHits)))
         IN  [m \in 1..Len(top) |-> [endpoint |-> top[m][1], hits |-> top[m][2]]]
    /\ apc' = "end"
    /\ UNCHANGED <<requests, idx, ep_hits, ep_times, slow_requests,
                   slow_endpoints, rvars>>

NextAgg == SlowRequests \/ Aggregate \/ AggregateDone \/ SlowEndpoints \/ MostHit

SpecAgg == InitAgg /\ [][NextAgg]_vars

-----------------------------------------------------------------------------
(* Vocabulary of the properties of read_log *)

IsRequestEntry(e) == "total_time" \in DOMAIN e
IsMessageEntry(e) == "message" \in DOMAIN e

\* the entries of the buckets, each with the number of the line it was built from
Finalized ==
    UNION { { <<log[k][n], log_src[k][n]>> : n \in 1..Len(log[k]) } : k \in DOMAIN log }

\* the in-progress entry; after an exception current_line is what the
\* abandoned build left behind, not an entry
InProgress ==
    IF pc # "raised" /\ ~IsEmpty(current_line)
    THEN { <<current_line, cur_src>> }
    ELSE {}

Entries == Finalized \cup InProgress

LineNos == 1..Len(lines)

\* line i was classified as a header line
HeaderAt(i) == outcome[i] # "continuation"

\* the builder accepted line i
Accepted(i) == outcome[i] \in {"message", "request"}

\* lines i+1 .. j-1 are continuation lines and line j is the next header
NextHeader(i, j) ==
    /\ i < j /\ j \in LineNos
    /\ HeaderAt(j)
    /\ \A m \in (i + 1)..(j - 1) : ~HeaderAt(m)

\* no header line follows line i
NoHeaderAfter(i) == \A m \in (i + 1)..Len(lines) : ~HeaderAt(m)

-----------------------------------------------------------------------------
(* C1 *)

\* C1: when read_log returns, every accepted header has exactly one entry, in
\* the bucket of its category (the entry open at end of input included).
C1_AcceptedHeaderFinalized ==
    pc = "returned" =>
        \A i \in LineNos :
            Accepted(i) =>
                LET k == IF outcome[i] = "request" THEN REQUEST_KEY
                         ELSE Frag(lines[i].toks, 3)
                IN  /\ Cardinality({ es \in Finalized : es[2] = i }) = 1
                    /\ \E n \in 1..Len(Bucket(log_src, k)) : log_src[k][n] = i

-----------------------------------------------------------------------------
(* C2 *)

\* C2: an accepted message header followed by k >= 0 continuation lines and
\* then a header line is finalized with exactly those k lines as context, in
\* file order, and its own header line is no element of the context.
C2_ContextIsContinuationRun ==
    \A i \in LineNos : \A j \in LineNos :
        ( outcome[i] = "message" /\ NextHeader(i, j) )
        => \E es \in Finalized :
              /\ es[2] = i
              /\ es[1]["context"] = SubSeq(lines, i + 1, j - 1)
              /\ \A m \in 1..Len(es[1]["context"]) : es[1]["context"][m] # lines[i]

\* a finalized message entry with two different continuation lines
C2_Witness ==
    \E es \in Finalized :
        /\ IsMessageEntry(es[1])
        /\ Len(es[1]["context"]) = 2
        /\ es[1]["context"][1] # es[1]["context"][2]
        /\ NextHeader(es[2], es[2] + 3)

-----------------------------------------------------------------------------
(* C3 *)

\* a continuation line is processed in this step
ContinuationStep == Len(lines') = Len(lines) + 1 /\ ~IsHeader(Last(lines'))

\* C3: a continuation line read while there is no in-progress entry, or a
\* request entry, changes neither the buckets nor the in-progress entry; no
\* request entry, in progress or finalized, has a context.
C3_ContinuationDropped ==
    /\ [](\A es \in Entries : IsRequestEntry(es[1]) => "context" \notin DOMAIN es[1])
    /\ [][ (ContinuationStep /\ (IsEmpty(current_line) \/ IsRequestEntry(current_line)))
           => UNCHANGED <<log, current_line>> ]_vars

\* a continuation line has just been read behind a request header
C3_Witness ==
    /\ Len(lines) >= 2
    /\ ~IsHeader(Last(lines))
    /\ cur_src = Len(lines) - 1
    /\ IsRequestEntry(current_line)

-----------------------------------------------------------------------------
(* C4 *)

\* line i is a header line with db "?"
NoDbHeader(i) ==
    /\ HeaderAt(i)
    /\ HasFrag(lines[i].toks, 4)
    /\ Frag(lines[i].toks, 4) = "?"

\* the numbers of the lines the context of an entry built from line s holds
ContextLines(es) ==
    IF "context" \in DOMAIN es[1]
    THEN (es[2] + 1)..(es[2] + Len(es[1]["context"]))
    ELSE {}

\* C4: with ignore_no_db, a header with db "?" gives no entry and leaves no
\* in-progress entry, and the continuation lines up to the next header are in
\* the context of no entry.
C4_NoDbSkipped ==
    ignore_no_db =>
        \A i \in LineNos :
            NoDbHeader(i) =>
                /\ \A es \in Entries : es[2] # i
                /\ NoHeaderAfter(i) => IsEmpty(current_line)
                /\ \A es \in Entries :
                     /\ "context" \in DOMAIN es[1] =>
                            es[1]["context"] =
                                SubSeq(lines, es[2] + 1, es[2] + Len(es[1]["context"]))
                     /\ \A m \in (i + 1)..Len(lines) :
                            (\A q \in (i + 1)..m : ~HeaderAt(q))
                                => m \notin ContextLines(es)

\* a message entry was open, then a header with db "?", a continuation line and
\* an accepted message header
C4_Witness ==
    /\ ignore_no_db
    /\ \E i \in LineNos :
         /\ NoDbHeader(i)
         /\ \E es \in Finalized : es[2] = i - 1 /\ IsMessageEntry(es[1])
         /\ i + 2 \in LineNos
         /\ ~HeaderAt(i + 1)
         /\ cur_src = i + 2
         /\ IsMessageEntry(current_line)

-----------------------------------------------------------------------------
(* C5 *)

\* line i is a header line of the request logger at the request level
RequestHeader(i) ==
    /\ HeaderAt(i)
    /\ HasFrag(lines[i].toks, 5)
    /\ IsRequestLine(DropLastChar(Frag(lines[i].toks, 5)), Frag(lines[i].toks, 3))

\* the entries of the request bucket, and an in-progress request entry
RequestBucket ==
    { es \in Finalized : es[1]["level"] = REQUEST_KEY }
        \cup { es \in InProgress : IsRequestEntry(es[1]) }

\* C5: every entry of the request bucket has total_time = sql_time + other_time
\* and total_time >= threshold, the threshold being non-zero; with no threshold,
\* or 0, the request bucket stays empty and a request line gives no entry.
\* (Stated of the states no exception has led to.)
C5_RequestBucket ==
    pc # "raised" =>
        /\ \A es \in RequestBucket :
             /\ IsRequestEntry(es[1])
             /\ es[1]["total_time"] = es[1]["sql_time"] + es[1]["other_time"]
             /\ es[1]["total_time"] >= Threshold
             /\ Threshold # 0
        /\ (threshold = NONE \/ Threshold = 0) =>
             /\ RequestBucket = {}
             /\ \A i \in LineNos : RequestHeader(i) => ~Accepted(i)

-----------------------------------------------------------------------------
(* C6 *)

\* C6: every message entry, finalized or in progress, has a level of rank
\* >= severity; with severity None there is no message entry at all.
C6_SeverityFilter ==
    /\ \A es \in Entries :
         IsMessageEntry(es[1]) =>
             /\ "level" \in DOMAIN es[1]
             /\ LevelRank(es[1]["level"]) >= Severity
    /\ severity = NONE => \A es \in Entries : ~IsMessageEntry(es[1])

\* under a severity above INFO, an INFO header was skipped and an ERROR header
\* was finalized
C6_Witness ==
    /\ severity = Some(40)
    /\ \E i \in LineNos : lines[i] = MsgInfo /\ outcome[i] = "skip"
    /\ \E es \in Finalized : IsMessageEntry(es[1]) /\ es[1]["level"] = "ERROR"

-----------------------------------------------------------------------------
(* C7 *)

-----------------------------------------------------------------------------
(* C8 *)

\* C8: a malformed header line never stops the pass; read_log is left by an
\* exception only when the file cannot be opened.
C8_OnlyFileAccessAborts ==
    /\ pc = "raised" => error = "OSError"
    /\ \A i \in LineNos : outcome[i] # "raise"

-----------------------------------------------------------------------------
(* C9 *)

\* the entry built from line i, in a bucket or in progress, has these fields
BuiltAs(i, endpoint, total_time, query_count) ==
    /\ outcome[i] = "request"
    /\ \E es \in Entries :
         /\ es[2] = i
         /\ es[1]["endpoint"] = endpoint
         /\ es[1]["total_time"] = total_time
         /\ es[1]["query_count"] = query_count

\* C9, as claimed: the request line of the scenario, read with threshold 0.04,
\* gives a request entry with endpoint "/", total_time 0.05 and query_count 5.
C9_Scenario ==
    \A i \in LineNos :
        (lines[i] = ReqScenario /\ threshold = Some(40)) => BuiltAs(i, "/", 50, 5)

\* C9, amended: the same request written in the access-log layout of werkzeug
\* gives that entry, and the ip, method, endpoint and status of a request
\* entry built from a line of that layout are its client, method, path and
\* status tokens.
C9_AccessLine ==
    /\ \A i \in LineNos :
         (lines[i] = ReqSlow /\ threshold = Some(40)) => BuiltAs(i, "/", 50, 5)
    /\ \A es \in Entries :
         IsRequestEntry(es[1]) =>
             \A path \in {"/", "/shop"} :
                 (\E tail \in {<<"5", "0.010", "0.040">>, <<"1", "0.010", "0.020">>} :
                      lines[es[2]].toks = Access("mydb", path, tail))
                 => /\ es[1]["ip"] = "127.0.0.1"
                    /\ es[1]["method"] = "GET"
                    /\ es[1]["endpoint"] = path
                    /\ es[1]["status"] = "200"

\* the access-log line was read under threshold 0.04 and its entry finalized
C9_Witness ==
    /\ threshold = Some(40)
    /\ \E es \in Finalized : lines[es[2]] = ReqSlow /\ IsRequestEntry(es[1])

-----------------------------------------------------------------------------
(* C10 *)

\* the requests consumed so far whose normalized endpoint is ep
Seen(ep) == { k \in 1..idx : Normalize(requests[k].endpoint) = ep }

RECURSIVE SumTotal(_)
SumTotal(ks) ==
    IF ks = {} THEN 0
    ELSE LET k == CHOOSE x \in ks : TRUE
         IN  requests[k].total_time + SumTotal(ks \ {k})

\* C10: after each request of the pass, and so at its end, the average kept
\* for a normalized endpoint is the sum of the total_time of its requests
\* divided by their number, and average * hit count is that sum.
C10_RunningAverage ==
    /\ \A k \in 1..idx : Normalize(requests[k].endpoint) \in Keys(ep_times)
    /\ \A ep \in Keys(ep_times) :
         LET avg == At(ep_times, ep)
         IN  /\ Seen(ep) # {}
             /\ avg.n * Cardinality(Seen(ep)) = SumTotal(Seen(ep)) * avg.d
             /\ Times(avg, HitsOf(ep_hits, ep)) = Frac(SumTotal(Seen(ep)), 1)

\* the pass is over; one endpoint was hit three times, once at least under a
\* locale prefix, and its average is no whole number
C10_Witness ==
    /\ apc = "done"
    /\ \E ep \in Keys(ep_times) :
         /\ HitsOf(ep_hits, ep) = 3
         /\ At(ep_times, ep).d = 3
         /\ \E k \in Seen(ep) : requests[k].endpoint # ep

-----------------------------------------------------------------------------
(* C11 *)

\* the endpoint p as it is logged under the locale en_US
Localized(p) == <<"/", "e", "n", "_", "U", "S">> \o p

\* the path p begins with a locale segment of its own
HasLocale(p) ==
    /\ Len(p) >= 7
    /\ p[1] = "/" /\ p[4] = "_" /\ p[7] = "/"
    /\ {p[2], p[3]} \subseteq LOWER
    /\ {p[5], p[6]} \subseteq UPPER

\* this step counts its request under the key p and touches no other key
CountedUnder(p) ==
    /\ HitsOf(ep_hits', p) = HitsOf(ep_hits, p) + 1
    /\ Keys(ep_hits') = Keys(ep_hits) \cup {p}
    /\ Keys(ep_times') = Keys(ep_times) \cup {p}
    /\ \A k \in Keys(ep_hits) \ {p} :
         /\ HitsOf(ep_hits', k) = HitsOf(ep_hits, k)
         /\ TimeOf(ep_times', k) = TimeOf(ep_times, k)

\* the step of the pass that consumes a request logged as p or as its
\* localized form
LocaleStep(p) ==
    /\ apc = "loop"
    /\ idx' = idx + 1
    /\ requests[idx + 1].endpoint \in {p, Localized(p)}

\* C11 as stated: for every path p starting with "/", a request logged as
\* "/xx_YY" + p and a request logged as p are counted under the same key p,
\* and the localized form is no key of the statistics.
C11_EveryPath ==
    [][\A p \in ENDPOINTS :
          LocaleStep(p)
          => /\ CountedUnder(p)
             /\ Localized(p) \notin Keys(ep_hits') \cup Keys(ep_times')]_vars

\* C11: for every path p starting with "/" that does not itself begin with
\* a locale segment, a request logged as "/xx_YY" + p and a request logged
\* as p are both counted under the key p, and neither adds nor updates
\* another key; one locale segment only is stripped.
C11_LocaleStripped ==
    [][\A p \in { q \in ENDPOINTS : ~HasLocale(q) } :
          LocaleStep(p) => CountedUnder(p)]_vars

\* a localized request and then the plain one were consumed, and the
\* statistics hold the plain path alone, hit twice
C11_Witness ==
    /\ idx = 2
    /\ ~HasLocale(requests[2].endpoint)
    /\ requests[1].endpoint = Localized(requests[2].endpoint)
    /\ Keys(ep_hits) = {requests[2].endpoint}
    /\ Keys(ep_times) = {requests[2].endpoint}
    /\ HitsOf(ep_hits, requests[2].endpoint) = 2

-----------------------------------------------------------------------------
(* C12 *)

\* line i is a header whose level token is no known level name, and neither
\* the no-db filter nor an exception ends its processing
UnknownLevelHeader(i) ==
    /\ HeaderAt(i)
    /\ HasFrag(lines[i].toks, 3)
    /\ Frag(lines[i].toks, 3) \notin LOG_LEVELS
    /\ ~(ignore_no_db /\ NoDbHeader(i))
    /\ outcome[i] # "raise"

\* C12 as stated: a header whose level token is no known level name passes
\* the severity filter for every value of severity: it is built into a
\* message entry and is not skipped.
C12_UnknownLevelPasses ==
    severity # NONE
        => \A i \in LineNos : UnknownLevelHeader(i) => outcome[i] = "message"

\* C12: a header whose level token is no known level name has rank 0: it is
\* built into a message entry exactly when severity <= 0, and is skipped for
\* every severity > 0 (and when no severity is given).
C12_UnknownLevelRankZero ==
    \A i \in LineNos :
        UnknownLevelHeader(i)
        => outcome[i] = IF Severity <= 0 THEN "message" ELSE "skip"

\* under severity 40 a header of unknown level was read and skipped
C12_Witness ==
    /\ severity = Some(40)
    /\ \E i \in LineNos : UnknownLevelHeader(i) /\ outcome[i] = "skip"

-----------------------------------------------------------------------------
(* C13 *)

\* the key of the bucket an entry built from line i belongs to
Category(i) ==
    IF outcome[i] = "request" THEN REQUEST_KEY ELSE Frag(lines[i].toks, 3)

\* a header line, accepted or not, follows line i
FollowedByHeader(i) == \E j \in LineNos : j > i /\ HeaderAt(j)

\* C13: end of input finalizes nothing: when read_log returns, each bucket
\* holds, in file order, exactly the entries built from the accepted headers
\* that a later header line (accepted or skipped) follows, and the entry of
\* the last accepted header, when no header follows it, is in no bucket.
C13_NoFlushAtEnd ==
    pc = "returned" =>
        /\ \A k \in DOMAIN log : \A n \in 1..Len(log[k]) :
             LET i == log_src[k][n]
             IN  /\ i \in LineNos
                 /\ Accepted(i)
                 /\ FollowedByHeader(i)
                 /\ Category(i) = k
                 /\ (IsRequestEntry(log[k][n]) <=> outcome[i] = "request")
                 /\ (n > 1 => log_src[k][n - 1] < i)
        /\ \A i \in LineNos :
             (Accepted(i) /\ FollowedByHeader(i))
             => \E n \in 1..Len(Bucket(log_src, Category(i))) :
                   log_src[Category(i)][n] = i
        /\ \A i \in LineNos :
             (Accepted(i) /\ NoHeaderAfter(i))
             => \A es \in Finalized : es[2] # i

\* read_log has returned with a bucket that holds an entry, while the entry
\* of the last accepted header, which has a continuation line, is in none
C13_Witness ==
    /\ pc = "returned"
    /\ Finalized # {}
    /\ cur_src \in LineNos
    /\ Accepted(cur_src)
    /\ cur_src < Len(lines)
    /\ NoHeaderAfter(cur_src)
    /\ \A es \in Finalized : es[2] # cur_src

-----------------------------------------------------------------------------
(* C14 *)

\* a header line is processed in this step
HeaderStep == Len(lines') = Len(lines) + 1 /\ Last(outcome') # "continuation"

\* this step appends entry e at the end of bucket k and changes nothing else
\* of the buckets
AppendsOne(k, e) ==
    /\ DOMAIN log' = DOMAIN log \cup {k}
    /\ log'[k] = Append(Bucket(log, k), e)
    /\ \A k2 \in DOMAIN log \ {k} : log'[k2] = log[k2]

\* C14: every header line, a skipped one included (no db, request without
\* timing or below the threshold, message below the severity), first
\* finalizes the in-progress entry: it is appended to its bucket, once, with
\* the context it has at that moment; after a skipped header there is no
\* in-progress entry until the next accepted header.
C14_HeaderFinalizesFirst ==
    /\ [][HeaderStep
           => /\ IF IsEmpty(current_line) THEN log' = log
                 ELSE AppendsOne(current_line["level"], current_line)
              /\ Last(outcome') = "skip" => IsEmpty(current_line')]_vars
    /\ [](\A k1 \in DOMAIN log_src : \A k2 \in DOMAIN log_src :
            \A n1 \in 1..Len(log_src[k1]) : \A n2 \in 1..Len(log_src[k2]) :
               log_src[k1][n1] = log_src[k2][n2] => (k1 = k2 /\ n1 = n2))
    /\ [](\A i \in LineNos :
            (outcome[i] = "skip" /\ \A j \in (i + 1)..Len(lines) : ~Accepted(j))
            => InProgress = {})

\* a skipped header has just been read behind a message header and its
\* continuation line: that entry is in its bucket with the line as context,
\* and no entry is in progress
C14_Witness ==
    /\ Len(lines) >= 3
    /\ Last(outcome) = "skip"
    /\ IsEmpty(current_line)
    /\ \E es \in Finalized :
         /\ es[2] = Len(lines) - 2
         /\ IsMessageEntry(es[1])
         /\ es[1]["context"] = <<lines[Len(lines) - 1]>>

-----------------------------------------------------------------------------
(* C15 *)

\* C15: the buckets are append-only and a finalized entry never changes: each
\* step of the pass either leaves every bucket as it is or appends one entry
\* at the end of one bucket, and a continuation line changes no bucket.
C15_AppendOnly ==
    [][/\ \/ log' = log
          \/ \E k \in DOMAIN log' :
                /\ Len(log'[k]) >= 1
                /\ AppendsOne(k, Last(log'[k]))
       /\ ContinuationStep => log' = log]_vars

\* a bucket holds two entries, the first with a continuation line as context
C15_Witness ==
    \E k \in DOMAIN log :
        /\ Len(log[k]) = 2
        /\ log_src[k] = <<1, 3>>
        /\ IsMessageEntry(log[k][1])
        /\ log[k][1]["context"] = <<lines[2]>>
        /\ log[k][2] # log[k][1]

-----------------------------------------------------------------------------
(* C16 *)

\* C16: every key of the buckets is a level name or the request key, every
\* entry under a key has that key as its level, and an entry is under the
\* request key exactly when it is a request entry.
C16_BucketKeys ==
    pc # "raised" =>
        \A k \in DOMAIN log :
            /\ k \in LOG_LEVELS \cup {REQUEST_KEY}
            /\ \A n \in 1..Len(log[k]) :
                 /\ log[k][n]["level"] = k
                 /\ (k = REQUEST_KEY <=> IsRequestEntry(log[k][n]))

-----------------------------------------------------------------------------
(* C17 *)

\* the table of line 151 has been computed
Sorted151 == apc \notin {"idle", "sort"}

TotalTime(k) == requests[k].total_time

\* the positions of the requests that are rows of the table, and the others
Included == { slow_requests[m] : m \in 1..Len(slow_requests) }
Excluded == (1..Len(requests)) \ Included

\* C17: the table of the slowest requests has min(10, number of request
\* entries) rows, each another request entry, in non-increasing order of
\* total_time; no row has a smaller total_time than an entry left out; and
\* among entries of equal total_time the one earlier in the file comes first
\* and is the one kept at the cut.
C17_SlowRequests ==
    Sorted151 =>
        /\ Len(slow_requests) = IF Len(requests) < 10 THEN Len(requests) ELSE 10
        /\ Included \subseteq 1..Len(requests)
        /\ Cardinality(Included) = Len(slow_requests)
        /\ \A a \in 1..Len(slow_requests) : \A b \in 1..Len(slow_requests) :
             a < b =>
                /\ TotalTime(slow_requests[a]) >= TotalTime(slow_requests[b])
                /\ (TotalTime(slow_requests[a]) = TotalTime(slow_requests[b])
                      => slow_requests[a] < slow_requests[b])
        /\ \A i \in Included : \A j \in Excluded :
             /\ TotalTime(i) >= TotalTime(j)
             /\ (TotalTime(i) = TotalTime(j) => i < j)

\* eleven requests or more, of two different total times; an entry left out
\* is as slow as a row of the table, and the table is not in file order
C17_Witness ==
    /\ Sorted151
    /\ Len(requests) >= 11
    /\ Len(slow_requests) = 10
    /\ \E i \in Included : \E j \in Excluded : TotalTime(i) = TotalTime(j)
    /\ \E a \in 1..9 : slow_requests[a] > slow_requests[a + 1]

-----------------------------------------------------------------------------
(* C18 *)

\* the normalized endpoints of the request bucket
Distinct == { Normalize(requests[k].endpoint) : k \in 1..Len(requests) }

\* the position in the file of the first request for the endpoint ep
FirstSeen(ep) ==
    CHOOSE k \in 1..Len(requests) :
        /\ Normalize(requests[k].endpoint) = ep
        /\ \A j \in 1..(k - 1) : Normalize(requests[j].endpoint) # ep

\* the endpoint a ranks before the endpoint b: its value is larger, or equal
\* with a first seen earlier (values are fractions)
Before(va, a, vb, b) ==
    \/ Less(vb, va)
    \/ ~Less(va, vb) /\ FirstSeen(a) < FirstSeen(b)

\* rows is a top-10 of the endpoints by value(_)
Ranked(rows, value(_)) ==
    LET shown == { rows[m].endpoint : m \in 1..Len(rows) }
    IN  /\ Len(rows) = IF Cardinality(Distinct) < 10 THEN Cardinality(Distinct)
                       ELSE 10
        /\ shown \subseteq Distinct
        /\ Cardinality(shown) = Len(rows)
        /\ \A a \in 1..Len(rows) : \A b \in 1..Len(rows) :
             a < b => Before(value(rows[a].endpoint), rows[a].endpoint,
                             value(rows[b].endpoint), rows[b].endpoint)
        /\ \A a \in shown : \A b \in Distinct \ shown :
             Before(value(a), a, value(b), b)

AverageOf(ep) == At(ep_times, ep)
HitCountOf(ep) == Frac(Cardinality(Seen(ep)), 1)

\* C18: the tables of the slowest and of the most hit endpoints each have
\* min(10, number of distinct normalized endpoints) rows, in non-increasing
\* order of the average total time and of the hit count; endpoints of equal
\* value are in the order of their first request in the file, at the cut
\* too; a row of the second table shows the hit count of its endpoint.
C18_EndpointTables ==
    apc = "end" =>
        /\ Ranked(slow_endpoints, AverageOf)
        /\ Ranked(most_hit, HitCountOf)
        /\ \A m \in 1..Len(most_hit) :
             most_hit[m].hits = HitsOf(ep_hits, most_hit[m].endpoint)

\* more than ten endpoints: both tables are cut, the endpoint seen last leads
\* the most hit ones with two hits, an endpoint left out of the slowest ones
\* is as slow as one that is shown, and the tables differ
C18_Witness ==
    /\ apc = "end"
    /\ Cardinality(Distinct) > 10
    /\ Len(slow_endpoints) = 10
    /\ Len(most_hit) = 10
    /\ most_hit[1].hits = 2
    /\ FirstSeen(most_hit[1].endpoint) = Cardinality(Distinct)
    /\ \E m \in 1..10 : \E ep \in Distinct :
         /\ \A r \in 1..10 : slow_endpoints[r].endpoint # ep
         /\ AverageOf(ep) = AverageOf(slow_endpoints[m].endpoint)
    /\ slow_endpoints[1].endpoint # most_hit[1].endpoint

-----------------------------------------------------------------------------
(* C19 *)

RECURSIVE SumHits(_)
SumHits(d) == IF d = <<>> THEN 0 ELSE d[1][2] + SumHits(Tail(d))

\* C19: after any number of requests of the pass, ep_hits and ep_times have
\* the same keys, every hit count is at least 1, and the hit counts add up
\* to the number of requests consumed; once the pass is over, to the length
\* of the request bucket.
C19_HitsConserved ==
    /\ Keys(ep_hits) = Keys(ep_times)
    /\ Len(ep_hits) = Cardinality(Keys(ep_hits))
    /\ Len(ep_times) = Cardinality(Keys(ep_times))
    /\ \A m \in 1..Len(ep_hits) : ep_hits[m][2] >= 1
    /\ SumHits(ep_hits) = idx
    /\ (apc \in {"done", "hits", "end"} => SumHits(ep_hits) = Len(requests))

\* the pass is over three requests, two of them for one endpoint
C19_Witness ==
    /\ apc = "done"
    /\ Len(requests) = 3
    /\ \E m \in 1..Len(ep_hits) : ep_hits[m][2] = 2
    /\ \E m \in 1..Len(ep_hits) : ep_hits[m][2] = 1

====
